---------------------------- MODULE Spec2Model ----------------------------
(***************************************************************************)
(* A model of the man page generator of scripts/jujuman.py and             *)
(* scripts/generate-manpage.py.                                            *)
(*                                                                         *)
(* Representation of Python values.                                        *)
(*   - A str is a sequence of atoms.  Each of the characters the program   *)
(*     treats specially (space, newline, tab, backslash, backtick, single  *)
(*     quote, hyphen) is an atom of its own; any other atom stands for a   *)
(*     non-empty run of ordinary characters ("widget", ".SH", "*(Aq").     *)
(*     '' is <<>>.                                                         *)
(*   - None is the one-atom sequence None, whose atom occurs in no input.  *)
(*   - A list or tuple is a sequence; a dict is a function on its keys.    *)
(***************************************************************************)
EXTENDS Naturals, Sequences, FiniteSets

VARIABLES
    pc,         \* position of the running operation
    raised,     \* the exception that ended the run, or None
    string,     \* man_escape: its argument
    escaped,    \* man_escape: the results of its successive applications
    text,       \* help: the text run_help returned
    lines,      \* help / format_options: the lines the loop has yet to visit
    state,      \* help: local `state`
    states,     \* help: local `states`
    commands,   \* help: local `commands`
    options,    \* format_options: its argument
    olist,      \* format_options: local `olist`
    prev,       \* format_options: local `prev`
    ret,        \* help / format_options: the value returned
    argv,       \* main: the parsed command line (options.*)
    proc,       \* run_help: what the child process does (exit status, output)
    self,       \* the JujuMan object
    outfile,    \* main: the sink chosen
    params,     \* write_documentation: local `params`
    sink        \* the write calls made on outfile, in order

vars == <<pc, raised, string, escaped, text, lines, state, states, commands,
          options, olist, prev, ret, argv, proc, self, outfile, params, sink>>

(***************************************************************************)
(* Bounds of the model.                                                    *)
(***************************************************************************)
MaxLen == 3
MaxLines == 3
MaxOptLines == 4
MaxDocLines == 2

(***************************************************************************)
(* Python values and str methods.                                          *)
(***************************************************************************)
None == <<"<None>">>

Truthy(v) == v # None /\ v # <<>>

\* '%s' % v
Str(v) == IF v = None THEN <<"None">> ELSE v

Whitespace == {" ", "\n", "\t"}

SeqsUpTo(S, n) == UNION {[1..k -> S] : k \in 0..n}

RECURSIVE Flatten(_)
Flatten(ss) == IF ss = <<>> THEN <<>> ELSE Head(ss) \o Flatten(Tail(ss))

RECURSIVE LStrip(_, _)
LStrip(s, chars) ==
    IF s # <<>> /\ Head(s) \in chars THEN LStrip(Tail(s), chars) ELSE s

RECURSIVE RStrip(_, _)
RStrip(s, chars) ==
    IF s # <<>> /\ s[Len(s)] \in chars
    THEN RStrip(SubSeq(s, 1, Len(s) - 1), chars)
    ELSE s

Strip(s) == RStrip(LStrip(s, Whitespace), Whitespace)

\* s.find(sep): the first index of atom sep in s, 0 when there is none
RECURSIVE Find(_, _, _)
Find(s, sep, i) ==
    IF i > Len(s) THEN 0 ELSE IF s[i] = sep THEN i ELSE Find(s, sep, i + 1)

\* s.split(sep, 1)
SplitOnce(s, sep) ==
    LET i == Find(s, sep, 1)
    IN  IF i = 0 THEN <<s>>
        ELSE <<SubSeq(s, 1, i - 1), SubSeq(s, i + 1, Len(s))>>

\* s.split(sep)
RECURSIVE Split(_, _)
Split(s, sep) ==
    LET i == Find(s, sep, 1)
    IN  IF i = 0 THEN <<s>>
        ELSE <<SubSeq(s, 1, i - 1)>> \o Split(SubSeq(s, i + 1, Len(s)), sep)

\* sub in s
Contains(s, sub) ==
    \E i \in 1..(Len(s) + 1) :
        i + Len(sub) - 1 <= Len(s) /\ SubSeq(s, i, i + Len(sub) - 1) = sub

\* s.startswith(c)
StartsWith(s, c) == s # <<>> /\ Head(s) = c

\* s.replace(old, new), old one character
RECURSIVE Replace(_, _, _)
Replace(s, old, new) ==
    IF s = <<>> THEN <<>>
    ELSE (IF Head(s) = old THEN new ELSE <<Head(s)>>)
         \o Replace(Tail(s), old, new)

\* s.lower(): the atoms of the inputs that hold upper case letters
UpperAtoms ==
    [a \in {"Summary:", "COMMANDS:"} |->
        IF a = "Summary:" THEN "summary:" ELSE "commands:"]

Lower(s) ==
    [i \in 1..Len(s) |->
        IF s[i] \in DOMAIN UpperAtoms THEN UpperAtoms[s[i]] ELSE s[i]]

\* The four characters man_escape replaces.  A TLA+ string cannot hold a
\* backtick, so the atom of that character is spelled out.
Backslash == "\\"
Backtick == "<backtick>"
Quote == "'"
Hyphen == "-"
Special == {Backslash, Backtick, Quote, Hyphen}

(***************************************************************************)
(* man_escape                                                              *)
(***************************************************************************)
\* man_escape without its last replacement
M_ManEscapeNoHyphen(s) ==
    LET r1 == Replace(s, Backslash, <<Backslash, Backslash>>)
        r2 == Replace(r1, Backtick, <<Backslash, Quote>>)
    IN  Replace(r2, Quote, <<Backslash, "*(Aq">>)

ManEscape(s) ==
    LET r1 == Replace(s, Backslash, <<Backslash, Backslash>>)
        r2 == Replace(r1, Backtick, <<Backslash, Quote>>)
        r3 == Replace(r2, Quote, <<Backslash, "*(Aq">>)
    IN  Replace(r3, Hyphen, <<Backslash, Hyphen>>)

(***************************************************************************)
(* JujuMan.format_options                                                  *)
(***************************************************************************)
\* One pass of the loop body over `line`; acc holds olist, prev and the
\* exception raised, if any.
FormatOptionsLine(acc, line) ==
    IF line = <<>> THEN acc
    ELSE IF StartsWith(line, Hyphen)
    THEN [acc EXCEPT !.olist = IF Truthy(acc.prev)
                               THEN Append(acc.olist, acc.prev)
                               ELSE acc.olist,
                     !.prev = <<line, <<>>>>]
    ELSE IF acc.prev = None
    THEN [acc EXCEPT !.raised = <<"TypeError">>]
    ELSE [acc EXCEPT !.prev = <<acc.prev[1], acc.prev[2] \o line>>]

\* The return statement: one block per pair of olist.
FormatOptionsJoin(ol) ==
    Flatten([i \in 1..Len(ol) |->
        <<".PP", "\n">> \o ol[i][1] \o <<"\n", ".RS", " ", "4", "\n">>
        \o ol[i][2] \o <<"\n", ".RE", "\n">>])

RECURSIVE FormatOptionsLoop(_, _)
FormatOptionsLoop(acc, ls) ==
    IF ls = <<>> \/ acc.raised # None THEN acc
    ELSE FormatOptionsLoop(FormatOptionsLine(acc, Head(ls)), Tail(ls))

\* The whole call: [raised, ret].
FormatOptions(opts) ==
    IF ~Truthy(opts) THEN [raised |-> None, ret |-> None]
    ELSE LET acc == FormatOptionsLoop(
                        [olist |-> <<>>, prev |-> None, raised |-> None],
                        Split(opts, "\n"))
         IN  [raised |-> acc.raised,
              ret |-> IF acc.raised # None THEN None
                      ELSE FormatOptionsJoin(acc.olist)]

(***************************************************************************)
(* JujuMan.help                                                            *)
(***************************************************************************)
known_states ==
    {<<"commands:">>, <<"summary:">>, <<"options:">>, <<"details:">>,
     <<"examples:">>}

EmptyDict == [k \in {} |-> <<>>]

DictSet(d, k, v) == [x \in (DOMAIN d) \cup {k} |-> IF x = k THEN v ELSE d[x]]

DictGet(d, k, default) == IF k \in DOMAIN d THEN d[k] ELSE default

\* One pass of the loop body over the raw line; st holds state, states and
\* commands.
HelpLine(st, raw) ==
    LET line == Strip(raw)
        new == Lower(line)
        s == SplitOnce(line, " ")
    IN  IF new \in known_states
        THEN [st EXCEPT !.state = new, !.states = DictSet(st.states, new, <<>>)]
        ELSE IF new = <<"commands:">>
        THEN IF Len(s) > 1 /\ ~Contains(s[2], <<"alias", " ", "for">>)
             THEN [st EXCEPT !.state = new,
                             !.commands = Append(st.commands,
                                 <<s[1], Strip(LStrip(s[2], {Hyphen, " "}))>>)]
             ELSE [st EXCEPT !.state = new]
        ELSE IF new \in DOMAIN st.states
        THEN [st EXCEPT !.state = new,
                        !.states = DictSet(st.states, new,
                                           st.states[new] \o <<"\n">> \o line)]
        ELSE [st EXCEPT !.state = new]

RECURSIVE HelpLoop(_, _)
HelpLoop(st, ls) ==
    IF ls = <<>> THEN st ELSE HelpLoop(HelpLine(st, Head(ls)), Tail(ls))

\* The statements after the loop: [raised, ret], ret the tuple returned.
HelpReturn(st) ==
    LET fo == FormatOptions(DictGet(st.states, <<"options:">>, None))
        final == DictSet(st.states, <<"options:">>, fo.ret)
    IN  [raised |-> fo.raised,
         ret |-> IF fo.raised # None THEN None
                 ELSE <<DictGet(final, <<"summary:">>, None),
                        DictGet(final, <<"options:">>, None),
                        DictGet(final, <<"details:">>, None),
                        DictGet(final, <<"examples:">>, None),
                        st.commands>>]

\* The whole call on the text run_help returned.
Help(t) ==
    HelpReturn(HelpLoop([state |-> None, states |-> EmptyDict,
                         commands |-> <<>>], Split(t, "\n")))

(***************************************************************************)
(* The templates and the blocks built from them.                           *)
(***************************************************************************)
\* the words ws with one space between each two
RECURSIVE Sp(_)
Sp(ws) == IF Len(ws) <= 1 THEN ws ELSE <<Head(ws), " ">> \o Sp(Tail(ws))

\* the troff comment leader .\" of the preamble
Cmt == <<".", Backslash, "\"">>

\* man_preamble % p
ManPreamble(p) ==
    Cmt \o Sp(<<"Man", "page", "for">>) \o <<" ">> \o Str(p.cmd) \o <<"\n">>
    \o Cmt \o <<"\n">>
    \o Cmt \o <<" ">>
       \o Sp(<<"Large", "parts", "of", "this", "file", "are", "autogenerated",
               "from", "the", "output", "of">>) \o <<"\n">>
    \o Cmt \o <<" ", " ", " ", " ", " ", "\"">> \o Str(p.cmd)
       \o <<" ", "help", " ", "commands\"", "\n">>
    \o Cmt \o <<" ", " ", " ", " ", " ", "\"">> \o Str(p.cmd)
       \o <<" ", "help", " ", "<cmd>\"", "\n">>
    \o Cmt \o <<"\n">>
    \o Cmt \o <<" ", "Generation", " ", "time:", " ">> \o Str(p.timestamp)
       \o <<"\n">>
    \o Cmt \o <<"\n">>
    \o <<"\n">>
    \o <<".ie", " ", Backslash, "n(.g", " ", ".ds", " ", "Aq", " ", Backslash,
         "(aq", "\n">>
    \o <<".el", " ", ".ds", " ", "Aq", " ", Quote, "\n">>

\* man_head % p
ManHead(p) ==
    <<".TH", " ">> \o Str(p.cmd) \o Str(p.hsubcmd)
    \o <<" ", "1", " ", "\"">> \o Str(p.datestamp)
    \o <<"\"", " ", "\"">> \o Str(p.version)
    \o <<"\"", " ", "\"">> \o Str(p.title) \o <<"\"", "\n">>
    \o <<".SH", " ", "\"NAME\"", "\n">>
    \o Str(p.cmd) \o Str(p.hsubcmd) \o <<" ", Hyphen, Hyphen, " ">>
    \o Str(p.summary) \o <<"\n">>

\* the line .B "%(cmd)s %(subcmd)s" of the synopsis templates
SynCmd(p) ==
    <<".B", " ", "\"">> \o Str(p.cmd) \o <<" ">> \o Str(p.subcmd)
    \o <<"\"", "\n">>

\* man_syn % p
ManSyn(p) ==
    <<".SH", " ", "\"SYNOPSIS\"", "\n">>
    \o SynCmd(p)
    \o <<".I", " ", "\"command\"", "\n", "[", "\n",
         ".I", " ", "\"command_options\"", "\n", "]", "\n", ".br", "\n">>
    \o SynCmd(p)
    \o <<".B", " ", "\"help\"", "\n", ".br", "\n">>
    \o SynCmd(p)
    \o <<".B", " ", "\"help\"", "\n", ".I", " ", "\"command\"", "\n">>

\* man_syn_sub % p
ManSynSub(p) ==
    <<".SH", " ", "\"SYNOPSIS\"", "\n">>
    \o SynCmd(p)
    \o <<"[", "\n", ".I", " ", "\"options\"", "\n", "]", "\n", ".br", "\n">>
    \o SynCmd(p)
    \o <<".B", " ", "\"help\"", "\n">>

\* man_desc % p
ManDesc(p) ==
    <<".SH", " ", "\"DESCRIPTION\"", "\n", "\n">> \o Str(p.description)
    \o <<"\n", ".SH", " ", "\"OPTIONS\"", "\n", "\n">> \o Str(p.options)
    \o <<"\n">>

\* man_examples % p
ManExamples(p) == <<>>

man_files == <<".SH", " ", "\"FILES\"", "\n">>

ENVIRONMENT == <<>>

\* "".join(environment_variables())
EnvironmentVariables ==
    (IF ENVIRONMENT # <<>> THEN <<".SH", " ", "\"ENVIRONMENT\"", "\n">>
     ELSE <<>>)
    \o Flatten([i \in 1..Len(ENVIRONMENT) |->
        <<".TP", "\n">>
        \o <<".I", " ", "\"">> \o ENVIRONMENT[i][1] \o <<"\"", "\n">>
        \o ManEscape(ENVIRONMENT[i][2]) \o <<"\n">>])

\* JujuMan.get_command_overview
GetCommandOverview(basecmd, cmds) ==
    <<".SH", " ", "\"COMMAND", " ", "OVERVIEW\"", "\n">>
    \o Flatten([i \in 1..Len(cmds) |->
        <<".TP", "\n", ".B", " ", "\"">> \o basecmd \o <<" ">> \o cmds[i][1]
        \o <<"\"", "\n">> \o cmds[i][2] \o <<"\n">>])

\* the local sac of write_documentation
SeeAlso(gen, cmds) ==
    <<".SH", " ", "\"SEE", " ", "ALSO\"", "\n">>
    \o (IF cmds # <<>>
        THEN Flatten([i \in 1..Len(cmds) |->
                <<Backslash, "fB">> \o gen.cmd \o <<Hyphen>> \o cmds[i][1]
                \o <<Backslash, "fR(1),", " ">>])
        ELSE <<Backslash, "fB">> \o gen.cmd \o <<Backslash, "fR(1),", " ">>)
    \o <<"\n">>

\* the references block built from self.also
AlsoRefs(gen) ==
    LET refs == Split(gen.also, "\t")
    IN  Flatten([i \in 1..Len(refs) |->
            <<".UR", " ">> \o refs[i] \o <<"\n", ".BR", " ">> \o refs[i]])

\* format_files without the failure: an entry with no tab is left out
M_FormatFilesSkipping(gen) ==
    IF ~Truthy(gen.files) THEN [raised |-> None, ret |-> None]
    ELSE LET files == Split(gen.files, "\n")
             ok == SelectSeq(files, LAMBDA f : Len(SplitOnce(f, "\t")) = 2)
         IN  [raised |-> None,
              ret |-> Flatten([i \in 1..Len(ok) |->
                        <<".TP", "\n", ".I", " ", "\"">>
                        \o SplitOnce(ok[i], "\t")[1] \o <<"\"", "\n">>
                        \o SplitOnce(ok[i], "\t")[2] \o <<"\n">>])]

\* JujuMan.format_files: [raised, ret]
FormatFiles(gen) ==
    IF ~Truthy(gen.files) THEN [raised |-> None, ret |-> None]
    ELSE LET files == Split(gen.files, "\n")
         IN  IF \E i \in 1..Len(files) : Len(SplitOnce(files[i], "\t")) < 2
             THEN [raised |-> <<"IndexError">>, ret |-> None]
             ELSE [raised |-> None,
                   ret |-> Flatten([i \in 1..Len(files) |->
                        <<".TP", "\n", ".I", " ", "\"">>
                        \o SplitOnce(files[i], "\t")[1] \o <<"\"", "\n">>
                        \o SplitOnce(files[i], "\t")[2] \o <<"\n">>])]

\* p with every field value escaped
EscapedFields(p) == [f \in DOMAIN p |-> ManEscape(Str(p[f]))]

\* the head block with the field values escaped and the template left alone
M_HeadBlockFieldsOnly(p) == ManHead(EscapedFields(p))

\* line 95: the text written for the head
HeadBlock(p) == ManEscape(ManHead(p))

\* time.strftime on the gmt of the run
Datestamp(gmt) == <<gmt.Y, Hyphen, gmt.m, Hyphen, gmt.d>>
Timestamp(gmt) == Datestamp(gmt) \o <<" ", gmt.HMS, " ", "+0000">>

\* lines 80-93: the dict params
Params(gen, r, gmt) ==
    [cmd |-> gen.cmd,
     datestamp |-> Datestamp(gmt),
     description |-> r[3],
     examples |-> r[4],
     files |-> gen.files,
     hsubcmd |-> IF Truthy(gen.subcmd) THEN <<Hyphen>> \o gen.subcmd ELSE <<>>,
     options |-> r[2],
     subcmd |-> IF Truthy(gen.subcmd) THEN gen.subcmd ELSE <<" ">>,
     summary |-> r[1],
     timestamp |-> Timestamp(gmt),
     title |-> gen.title,
     version |-> gen.version]

(***************************************************************************)
(* JujuMan.__init__ and main                                               *)
(***************************************************************************)
DefaultVersion == <<"0.0.1">>

Kw(kw, name, default) == IF name \in DOMAIN kw THEN kw[name] ELSE default

\* JujuMan(cmd, **kw)
JujuManInit(cmd, kw) ==
    [also |-> Kw(kw, "also", None),
     cmd |-> cmd,
     files |-> Kw(kw, "files", None),
     subcmd |-> Kw(kw, "subcmd", None),
     title |-> Kw(kw, "title", None),
     version |-> Kw(kw, "version", DefaultVersion),
     filename |-> cmd
                  \o (IF ~Truthy(Kw(kw, "subcmd", None)) THEN <<>>
                      ELSE <<Hyphen>> \o Kw(kw, "subcmd", None))
                  \o <<".1">>]

\* JujuMan.get_filename
GetFilename(gen) == gen.filename

\* the output name with standard output as the default
M_OutFileNameStdout(o, gen) ==
    IF Truthy(o.filename) THEN o.filename ELSE <<Hyphen>>

\* main, lines 48-51: outfilename
OutFileName(o, gen) ==
    IF Truthy(o.filename) THEN o.filename ELSE GetFilename(gen)

Stdout == <<"<sys.stdout>">>

\* main, lines 53-56: outfile, a file opened for writing or sys.stdout
OpenOutfile(name) == IF name = <<Hyphen>> THEN Stdout ELSE <<"<file>">> \o name

(***************************************************************************)
(* JujuMan.run_help                                                        *)
(***************************************************************************)
\* subprocess.check_output(cmd).strip() on a child process that exits with
\* status p.rc after printing p.out: [raised, ret].
RunHelp(p) ==
    IF p.rc # 0 THEN [raised |-> <<"CalledProcessError">>, ret |-> None]
    ELSE [raised |-> None, ret |-> Strip(p.out)]

(***************************************************************************)
(* Inputs.                                                                 *)
(***************************************************************************)
RECURSIVE Join(_, _)
Join(ls, sep) ==
    IF ls = <<>> THEN <<>>
    ELSE IF Len(ls) = 1 THEN ls[1]
    ELSE ls[1] \o <<sep>> \o Join(Tail(ls), sep)

Texts(ls, n) == {Join(t, "\n") : t \in SeqsUpTo(ls, n)}

HelpLines ==
    {<<"COMMANDS:">>, <<"Summary:">>, <<"options:">>,
     <<"foo", " ", " ", " ", "does", " ", "foo", " ", "things">>,
     <<"bar", " ", "alias", " ", "for", " ", "foo">>,
     <<"baz", " ", "-", " ", "does", " ", "baz">>,
     <<" ", "hello">>}

OptionLines ==
    {<<"-", "a,", " ", "-", "-", "all">>,
     <<" ", " ", " ", " ", "show", " ", "all">>,
     <<"-", "b">>,
     <<" ", " ", " ", " ", "brief">>,
     <<>>}

EscapeAlphabet == Special \cup {"a"}

IdleEscape == string = <<>> /\ escaped = <<>>
IdleHelp == text = None /\ state = None /\ states = EmptyDict /\ commands = <<>>
IdleOptions == options = None /\ olist = <<>> /\ prev = None
IdleMain ==
    /\ argv = <<>> /\ self = <<>> /\ outfile = None
    /\ params = <<>> /\ sink = <<>>

escapeVars == <<string, escaped>>
helpVars == <<text, state, states, commands>>
optionsVars == <<options, olist, prev>>
mainVars == <<argv, self, outfile, params, sink>>

(***************************************************************************)
(* man_escape applied to a string, and again to its own result.            *)
(***************************************************************************)
InitEscape ==
    /\ pc = "man_escape"
    /\ string \in SeqsUpTo(EscapeAlphabet, MaxLen)
    /\ escaped = <<>>
    /\ raised = None /\ lines = <<>> /\ ret = None /\ proc = <<>>
    /\ IdleHelp /\ IdleOptions /\ IdleMain

Escape ==
    /\ pc = "man_escape"
    /\ escaped' = Append(escaped,
                         ManEscape(IF escaped = <<>> THEN string
                                   ELSE escaped[Len(escaped)]))
    /\ pc' = IF Len(escaped) = 1 THEN "done" ELSE pc
    /\ UNCHANGED <<raised, string, lines, ret, proc, helpVars, optionsVars,
                   mainVars>>

NextEscape == Escape

SpecEscape == InitEscape /\ [][NextEscape]_vars

(***************************************************************************)
(* JujuMan.help, one pass of its loop at a time.                           *)
(***************************************************************************)
InitHelp ==
    /\ pc = "help"
    /\ proc \in [rc : {0}, out : Texts(HelpLines, MaxLines)]
                \cup {[rc |-> 1, out |-> <<>>]}
    /\ raised = None /\ lines = <<>> /\ ret = None
    /\ IdleHelp /\ IdleEscape /\ IdleOptions /\ IdleMain

\* lines 41-47: run_help and the locals
HelpCall ==
    /\ pc = "help"
    /\ LET r == RunHelp(proc)
       IN  /\ raised' = r.raised
           /\ text' = r.ret
           /\ lines' = IF r.raised # None THEN <<>> ELSE Split(r.ret, "\n")
           /\ pc' = IF r.raised # None THEN "raised" ELSE "scan"
    /\ commands' = <<>> /\ states' = EmptyDict /\ state' = None
    /\ UNCHANGED <<ret, proc, escapeVars, optionsVars, mainVars>>

\* lines 48-66: the loop body on the next line
HelpScan ==
    /\ pc = "scan" /\ lines # <<>>
    /\ LET st == HelpLine([state |-> state, states |-> states,
                           commands |-> commands], Head(lines))
       IN  state' = st.state /\ states' = st.states /\ commands' = st.commands
    /\ lines' = Tail(lines)
    /\ UNCHANGED <<pc, raised, text, ret, proc, escapeVars, optionsVars,
                   mainVars>>

\* lines 68-73
HelpFinish ==
    /\ pc = "scan" /\ lines = <<>>
    /\ LET r == HelpReturn([state |-> state, states |-> states,
                            commands |-> commands])
       IN  /\ raised' = r.raised
           /\ ret' = r.ret
           /\ pc' = IF r.raised # None THEN "raised" ELSE "done"
    /\ UNCHANGED <<lines, text, state, states, commands, proc, escapeVars,
                   optionsVars, mainVars>>

NextHelp == HelpCall \/ HelpScan \/ HelpFinish

SpecHelp == InitHelp /\ [][NextHelp]_vars

(***************************************************************************)
(* JujuMan.format_options, one pass of its loop at a time.                 *)
(***************************************************************************)
InitOptions ==
    /\ pc = "format_options"
    /\ options \in Texts(OptionLines, MaxOptLines) \cup {None}
    /\ olist = <<>> /\ prev = None
    /\ raised = None /\ lines = <<>> /\ ret = None /\ proc = <<>>
    /\ IdleHelp /\ IdleEscape /\ IdleMain

\* lines 132-136
FormatOptionsCall ==
    /\ pc = "format_options"
    /\ IF ~Truthy(options)
       THEN pc' = "done" /\ lines' = <<>>
       ELSE pc' = "olist" /\ lines' = Split(options, "\n")
    /\ UNCHANGED <<raised, ret, proc, options, olist, prev, escapeVars,
                   helpVars, mainVars>>

\* lines 136-144: the loop body on the next line
FormatOptionsScan ==
    /\ pc = "olist" /\ lines # <<>>
    /\ LET acc == FormatOptionsLine([olist |-> olist, prev |-> prev,
                                     raised |-> None], Head(lines))
       IN  /\ olist' = acc.olist /\ prev' = acc.prev /\ raised' = acc.raised
           /\ pc' = IF acc.raised # None THEN "raised" ELSE pc
    /\ lines' = Tail(lines)
    /\ UNCHANGED <<ret, proc, options, escapeVars, helpVars, mainVars>>

\* lines 146-148
FormatOptionsFinish ==
    /\ pc = "olist" /\ lines = <<>>
    /\ ret' = FormatOptionsJoin(olist)
    /\ pc' = "done"
    /\ UNCHANGED <<raised, lines, proc, options, olist, prev, escapeVars,
                   helpVars, mainVars>>

NextOptions == FormatOptionsCall \/ FormatOptionsScan \/ FormatOptionsFinish

SpecOptions == InitOptions /\ [][NextOptions]_vars

(***************************************************************************)
(* main and JujuMan.write_documentation, one write call at a time.         *)
(***************************************************************************)
DocLines ==
    {<<"Summary:">>, <<"options:">>,
     <<"foo", " ", " ", " ", "does", " ", "foo", " ", "things">>}

Clock == {[Y |-> "2026", m |-> "11", d |-> "04", HMS |-> "20:26:04"]}

Args ==
    [also : {None, <<"x", "\t", "y", Hyphen, "z">>},
     files : {None, <<>>,
              <<"a", "\t", "b">>,
              <<"a", "\t", "b", "\n", "c">>,
              <<"a", "\t", "b", "\n">>,
              <<"a", "\t", "b", "\n", "c", "\t", "d", Quote, "e">>},
     filename : {None, <<>>, <<Hyphen>>, <<"out.1">>},
     subcommand : {None, <<"deploy">>},
     title : {None, <<"Widget">>},
     version : {None, <<"1.2">>},
     utility : {<<>>, <<"widget">>}]

InitMain ==
    /\ pc = "main"
    /\ argv \in Args
    /\ proc \in [rc : {0}, out : Texts(DocLines, MaxDocLines)]
                \cup {[rc |-> 1, out |-> <<>>]}
    /\ self = <<>> /\ outfile = None /\ params = <<>> /\ sink = <<>>
    /\ raised = None /\ lines = <<>> /\ ret = None
    /\ IdleHelp /\ IdleEscape /\ IdleOptions

Write(block, t) == sink' = Append(sink, [block |-> block, text |-> t])

\* generate-manpage.py lines 35-56, up to the call of write_documentation
Main ==
    /\ pc = "main"
    /\ IF ~Truthy(argv.utility)
       THEN pc' = "exit" /\ UNCHANGED <<self, outfile>>
       ELSE LET gen == JujuManInit(argv.utility,
                           [also |-> argv.also,
                            files |-> argv.files,
                            subcmd |-> argv.subcommand,
                            title |-> argv.title,
                            version |-> argv.version])
            IN  /\ self' = gen
                /\ outfile' = OpenOutfile(OutFileName(argv, gen))
                /\ pc' = "write_documentation"
    /\ UNCHANGED <<raised, lines, ret, argv, proc, params, sink, escapeVars,
                   helpVars, optionsVars>>

\* jujuman.py lines 77-93: the clock, help() and params
WriteDocumentation ==
    /\ pc = "write_documentation"
    /\ LET rh == RunHelp(proc)
           r == IF rh.raised # None THEN rh ELSE Help(rh.ret)
       IN  /\ raised' = r.raised
           /\ ret' = r.ret
           /\ text' = rh.ret
           /\ commands' = IF r.raised # None THEN <<>> ELSE r.ret[5]
           /\ IF r.raised # None
              THEN pc' = "raised" /\ UNCHANGED params
              ELSE /\ pc' = "preamble"
                   /\ \E gmt \in Clock : params' = Params(self, r.ret, gmt)
    /\ UNCHANGED <<lines, state, states, argv, proc, self, outfile, sink,
                   escapeVars, optionsVars>>

docUnchanged ==
    <<raised, lines, ret, argv, proc, self, outfile, params, escapeVars,
      helpVars, optionsVars>>

\* line 94
WritePreamble ==
    /\ pc = "preamble"
    /\ Write("Preamble", ManPreamble(params))
    /\ pc' = "head"
    /\ UNCHANGED docUnchanged

\* line 95
WriteHead ==
    /\ pc = "head"
    /\ Write("Head", HeadBlock(params))
    /\ pc' = "synopsis"
    /\ UNCHANGED docUnchanged

\* lines 96-99
WriteSynopsis ==
    /\ pc = "synopsis"
    /\ IF Truthy(self.subcmd)
       THEN Write("Synopsis", ManEscape(ManSynSub(params)))
       ELSE Write("Synopsis", ManEscape(ManSyn(params)))
    /\ pc' = "description"
    /\ UNCHANGED docUnchanged

\* line 100
WriteDescription ==
    /\ pc = "description"
    /\ Write("Description", ManEscape(ManDesc(params)))
    /\ pc' = "overview"
    /\ UNCHANGED docUnchanged

\* lines 101-103
WriteCommandOverview ==
    /\ pc = "overview"
    /\ IF commands # <<>>
       THEN Write("CommandOverview",
                  ManEscape(GetCommandOverview(self.cmd, commands)))
       ELSE UNCHANGED sink
    /\ pc' = "examples"
    /\ UNCHANGED docUnchanged

\* lines 104-105
WriteExamples ==
    /\ pc = "examples"
    /\ IF Truthy(ret[4])
       THEN Write("Examples", ManEscape(ManExamples(params)))
       ELSE UNCHANGED sink
    /\ pc' = "environment"
    /\ UNCHANGED docUnchanged

\* lines 106-113: sac is built, then the environment table is written
WriteEnvironment ==
    /\ pc = "environment"
    /\ Write("Environment", EnvironmentVariables)
    /\ pc' = "files"
    /\ UNCHANGED docUnchanged

\* lines 114-115
WriteFiles ==
    /\ pc = "files"
    /\ IF Truthy(self.files)
       THEN LET ff == FormatFiles(self)
            IN  IF ff.raised # None
                THEN raised' = ff.raised /\ pc' = "raised" /\ UNCHANGED sink
                ELSE /\ Write("Files", ManEscape(man_files \o ff.ret))
                     /\ pc' = "seealso"
                     /\ UNCHANGED raised
       ELSE pc' = "seealso" /\ UNCHANGED <<sink, raised>>
    /\ UNCHANGED <<lines, ret, argv, proc, self, outfile, params, escapeVars,
                   helpVars, optionsVars>>

\* write_documentation with the see-also block left out when no command
\* was found
M_WriteSeeAlsoIfCommands ==
    /\ pc = "seealso"
    /\ IF commands # <<>>
       THEN Write("SeeAlso", SeeAlso(self, commands))
       ELSE UNCHANGED sink
    /\ pc' = "also"
    /\ UNCHANGED docUnchanged

\* line 116
WriteSeeAlso ==
    /\ pc = "seealso"
    /\ Write("SeeAlso", SeeAlso(self, commands))
    /\ pc' = "also"
    /\ UNCHANGED docUnchanged

\* lines 117-120
WriteAlso ==
    /\ pc = "also"
    /\ IF Truthy(self.also)
       THEN Write("Also", ManEscape(AlsoRefs(self)))
       ELSE UNCHANGED sink
    /\ pc' = "done"
    /\ UNCHANGED docUnchanged

NextMain ==
    \/ Main
    \/ WriteDocumentation
    \/ WritePreamble
    \/ WriteHead
    \/ WriteSynopsis
    \/ WriteDescription
    \/ WriteCommandOverview
    \/ WriteExamples
    \/ WriteEnvironment
    \/ WriteFiles
    \/ WriteSeeAlso
    \/ WriteAlso

SpecMain == InitMain /\ [][NextMain]_vars

(***************************************************************************)
(* Claims about man_escape (SpecEscape).                                   *)
(***************************************************************************)
NumSpecial(s) == Cardinality({i \in 1..Len(s) : s[i] \in Special})

\* The replacement string each replacement step of man_escape names.
StepReplacement(c) ==
    IF c = Backslash THEN <<Backslash, Backslash>>
    ELSE IF c = Backtick THEN <<Backslash, Quote>>
    ELSE IF c = Quote THEN <<Backslash, "*(Aq">>
    ELSE <<Backslash, Hyphen>>

\* Every special character replaced by its own step's replacement string,
\* every other character kept.
EachReplacedOnce(s) ==
    Flatten([i \in 1..Len(s) |->
        IF s[i] \in Special THEN StepReplacement(s[i]) ELSE <<s[i]>>])

\* C6: man_escape of a text holding exactly one special character replaces
\* that character by the replacement string its own step defines, no later
\* step altering it, and keeps every other character.
C6_OneSpecialReplacedByItsStep ==
    (Len(escaped) >= 1 /\ NumSpecial(string) = 1)
        => escaped[1] = EachReplacedOnce(string)

\* C7 as stated: man_escape(man_escape(s)) = man_escape(s) for every s.
C7_Idempotent == Len(escaped) = 2 => escaped[2] = escaped[1]

\* C7, amended: man_escape(man_escape(s)) = man_escape(s) exactly when s holds
\* none of the four special characters; any s holding one is changed again
\* by the second application.
C7_IdempotentIffNoSpecial ==
    Len(escaped) = 2 => ((escaped[2] = escaped[1]) <=> NumSpecial(string) = 0)

\* C7: a string holding a hyphen has been escaped twice, and the second
\* result differs from the first.
C7_Witness ==
    /\ Len(escaped) = 2
    /\ string = <<"a", Hyphen>>
    /\ escaped[1] = <<"a", Backslash, Hyphen>>
    /\ escaped[2] = <<"a", Backslash, Backslash, Backslash, Hyphen>>

(***************************************************************************)
(* Claims about JujuMan.help (SpecHelp).                                   *)
(***************************************************************************)
\* The entries the commands: sections of the lines ls describe: one per line
\* of the form <name> <description> inside a commands: section, lines
\* holding "alias for" left out.
RECURSIVE SectionCommands(_, _)
SectionCommands(ls, inCommands) ==
    IF ls = <<>> THEN <<>>
    ELSE LET line == Strip(Head(ls))
             s == SplitOnce(line, " ")
         IN  IF Lower(line) \in known_states
             THEN SectionCommands(Tail(ls), Lower(line) = <<"commands:">>)
             ELSE IF /\ inCommands
                     /\ Len(s) > 1
                     /\ ~Contains(line, <<"alias", " ", "for">>)
             THEN <<<<s[1], Strip(LStrip(s[2], {Hyphen, " "}))>>>>
                  \o SectionCommands(Tail(ls), inCommands)
             ELSE SectionCommands(Tail(ls), inCommands)

\* C1: the command list help() returns holds one entry (name, description
\* stripped of leading dashes and spaces) for each <name> <description> line
\* of a commands: section that does not hold "alias for", in order, and none
\* for a line that does.
C1_CommandsParsed ==
    pc = "done" => ret[5] = SectionCommands(Split(text, "\n"), FALSE)

\* The text of section h after the lines ls: the lines between the header h
\* and the next known header, each appended after a newline.
RECURSIVE SectionText(_, _, _, _)
SectionText(ls, h, cur, acc) ==
    IF ls = <<>> THEN acc
    ELSE LET line == Strip(Head(ls))
         IN  IF Lower(line) \in known_states
             THEN SectionText(Tail(ls), h, Lower(line),
                              IF Lower(line) = h THEN <<>> ELSE acc)
             ELSE SectionText(Tail(ls), h, cur,
                              IF cur = h THEN acc \o <<"\n">> \o line ELSE acc)

\* C2: after the scan, the text held for each of the sections summary:,
\* options:, details: and examples: that was seen is made of every line
\* between its header and the next known header, newline-joined in order.
C2_SectionsAccumulated ==
    (pc = "scan" /\ lines = <<>>) =>
        \A h \in known_states \ {<<"commands:">>} :
            h \in DOMAIN states =>
                states[h] = SectionText(Split(text, "\n"), h, None, <<>>)

(***************************************************************************)
(* Claims about JujuMan.format_options (SpecOptions).                      *)
(***************************************************************************)
\* The (flag line, description) pairs of the non-blank lines ls, the first
\* of which starts with a dash.
RECURSIVE OptionPairs(_, _)
OptionPairs(ls, acc) ==
    IF ls = <<>> THEN acc
    ELSE IF Head(ls) = <<>> THEN OptionPairs(Tail(ls), acc)
    ELSE IF StartsWith(Head(ls), Hyphen)
    THEN OptionPairs(Tail(ls), Append(acc, <<Head(ls), <<>>>>))
    ELSE OptionPairs(Tail(ls),
                     [acc EXCEPT ![Len(acc)] = <<@[1], @[2] \o Head(ls)>>])

\* The options text is N >= 1 dash-prefixed lines, each followed by zero or
\* more non-dash lines.
OptionsWellFormed(o) ==
    /\ Truthy(o)
    /\ StartsWith(o, Hyphen)

NumBlocks(markup) == Cardinality({i \in 1..Len(markup) : markup[i] = ".PP"})

\* C3: for options text of N >= 1 dash-prefixed flag lines, each followed by
\* zero or more description lines, format_options returns exactly N .PP
\* blocks, one per option in input order, the last option included, each
\* holding the option's flag line and description.
C3_OneBlockPerOption ==
    (pc = "done" /\ OptionsWellFormed(options)) =>
        LET pairs == OptionPairs(Split(options, "\n"), <<>>)
        IN  /\ NumBlocks(ret) = Len(pairs)
            /\ ret = FormatOptionsJoin(pairs)

(***************************************************************************)
(* Claims about main and JujuMan.write_documentation (SpecMain).           *)
(***************************************************************************)
BlockOrder ==
    <<"Preamble", "Head", "Synopsis", "Description", "CommandOverview",
      "Examples", "Environment", "Files", "SeeAlso", "Also">>

Rank(b) == CHOOSE i \in 1..Len(BlockOrder) : BlockOrder[i] = b

\* block b has put text into the sink
Written(b) == \E i \in 1..Len(sink) : sink[i].block = b /\ sink[i].text # <<>>

\* C4: the blocks reach the sink in the fixed order Preamble, Head, Synopsis,
\* Description, CommandOverview, Examples, Environment, Files, SeeAlso, Also,
\* none twice; a completed run has written Preamble, Head, Synopsis,
\* Description and SeeAlso; CommandOverview is written only if a command was
\* found, Examples only if examples text is present, Environment only if the
\* environment table is non-empty, Files only if a files list was given, Also
\* only if an also list was given.
C4_BlocksInFixedOrder ==
    /\ \A i, j \in 1..Len(sink) :
           i < j => Rank(sink[i].block) < Rank(sink[j].block)
    /\ pc = "done" =>
           \A b \in {"Preamble", "Head", "Synopsis", "Description", "SeeAlso"} :
               Written(b)
    /\ Written("CommandOverview") => ret[5] # <<>>
    /\ Written("Examples") => Truthy(ret[4])
    /\ Written("Environment") => ENVIRONMENT # <<>>
    /\ Written("Files") => Truthy(argv.files)
    /\ Written("Also") => Truthy(argv.also)

\* C4: a completed run with a files list and an also list: every block but
\* CommandOverview and Examples has had its write call, in order.
C4_Witness ==
    /\ pc = "done"
    /\ [i \in 1..Len(sink) |-> sink[i].block]
         = <<"Preamble", "Head", "Synopsis", "Description", "Environment",
             "Files", "SeeAlso", "Also">>
    /\ Written("Files") /\ Written("Also") /\ ~Written("Environment")

\* every hyphen of t follows a backslash, and t holds no bare quote or
\* backtick
AllEscaped(t) ==
    \A k \in 1..Len(t) :
        /\ t[k] = Hyphen => (k > 1 /\ t[k - 1] = Backslash)
        /\ t[k] # Quote /\ t[k] # Backtick

C8_StdoutWhenDashOrAbsent ==
    pc \notin {"main", "exit"} =>
        ((argv.filename = <<Hyphen>> \/ argv.filename = None)
            <=> outfile = Stdout)

\* C8, amended: the sink is standard output only for the output option -;
\* with no output option (or an empty one) main opens the file named by
\* get_filename(), <utility>[-<subcommand>].1, for writing, and with any
\* other path it opens that path.
C8_StdoutOnlyWhenDash ==
    pc \notin {"main", "exit"} =>
        /\ outfile = Stdout <=> argv.filename = <<Hyphen>>
        /\ ~Truthy(argv.filename) =>
               outfile = <<"<file>">> \o argv.utility
                         \o (IF Truthy(argv.subcommand)
                             THEN <<Hyphen>> \o argv.subcommand ELSE <<>>)
                         \o <<".1">>
        /\ (Truthy(argv.filename) /\ argv.filename # <<Hyphen>>) =>
               outfile = <<"<file>">> \o argv.filename

\* C8: a completed run with no output option has written the page to the
\* file widget.1.
C8_Witness ==
    /\ pc = "done"
    /\ argv.filename = None
    /\ outfile = <<"<file>", "widget", ".1">>
    /\ Written("Head")

\* C9: the version field of the head written through main is "0.0.1" when no
\* version option is given, and the option's string when one is.
C9_DefaultVersionInHead ==
    \A i \in 1..Len(sink) :
        sink[i].block = "Head" =>
            sink[i].text =
                HeadBlock([params EXCEPT !.version =
                              IF argv.version = None THEN DefaultVersion
                              ELSE argv.version])

\* the files list f is given and one of its entries holds no tab
Malformed(f) ==
    /\ Truthy(f)
    /\ \E e \in {Split(f, "\n")[i] : i \in 1..Len(Split(f, "\n"))} :
           Find(e, "\t", 1) = 0

NumAtoms(t, a) == Cardinality({k \in 1..Len(t) : t[k] = a})

\* C10: with a files list of which an entry holds no tab, the run never
\* gets past the files block: it ends in the error raised there, with
\* neither the Files block nor SeeAlso nor Also written; with a files list
\* whose entries all hold a tab no such error is raised and the Files block
\* holds one .TP / .I / description block per entry.
C10_MalformedFilesAbort ==
    /\ Malformed(argv.files) =>
           /\ pc \notin {"seealso", "also", "done"}
           /\ \A i \in 1..Len(sink) :
                  sink[i].block \notin {"Files", "SeeAlso", "Also"}
    /\ raised = <<"IndexError">> =>
           /\ Malformed(argv.files)
           /\ pc = "raised"
           /\ sink[Len(sink)].block = "Environment"
    /\ (Truthy(argv.files) /\ ~Malformed(argv.files)) =>
           /\ pc \in {"seealso", "also", "done"} => Written("Files")
           /\ \A i \in 1..Len(sink) :
                  sink[i].block = "Files" =>
                      /\ NumAtoms(sink[i].text, ".TP")
                           = Len(Split(argv.files, "\n"))
                      /\ NumAtoms(sink[i].text, ".I")
                           = Len(Split(argv.files, "\n"))

\* C10: the run has ended in the IndexError of an entry with no tab, after
\* the description block and before any files block.
C10_Witness ==
    /\ pc = "raised"
    /\ raised = <<"IndexError">>
    /\ argv.files = <<"a", "\t", "b", "\n", "c">>
    /\ Written("Description")
    /\ ~Written("Files")

=============================================================================
